---------------------------- MODULE Spec2Model ----------------------------
(***************************************************************************)
(* modular-dm: the control tree of src/index.js (the current copy of the   *)
(* file, lines 377-826; the earlier copy, lines 1-376, is superseded by    *)
(* it).  Every operation of class dm is a synchronous call: the operators  *)
(* below take the heap before the call and yield the heap after it,        *)
(* together with the trace of what the call emitted.                       *)
(***************************************************************************)
EXTENDS Integers, Sequences, FiniteSets, TLC

VARIABLES nodes,  \* the objects ever constructed, by object id (1 = the top level container)
          cls,    \* _cls_ of the top level container: the class names loaded so far
          log,    \* what the last call emitted, invoked and initialised, in order
          err,    \* whether the last call ended by a thrown TypeError
          op      \* the last call made by the host code

vars == <<nodes, cls, log, err, op>>

----------------------------------------------------------------------------
(* Bounds of the model.                                                    *)

MaxNodes == 3
MaxListeners == 3

----------------------------------------------------------------------------
(* JavaScript values: a tag and a content.                                 *)

Undef == <<"undefined">>
Null == <<"null">>
Num(n) == <<"number", n>>
Str(s) == <<"string", s>>
Bool(b) == <<"boolean", b>>
Obj(kv) == <<"object", kv>>      \* a plain object: its own keys in insertion order
Node(id) == <<"node", id>>       \* a reference to a control
Arr(ref, elems) == <<"array", ref, elems>>  \* an array of numbers: the array object ref and its elements

NoNode == 0                      \* an undefined _parent / caller
NaN == -1                        \* ToNumber of a string that is no number (numbers of the model are >= 0)

TypeOf(v) == IF v[1] \in {"null", "object", "node", "array"} THEN "object" ELSE v[1]

\* Boolean(v)
Truthy(v) ==
    CASE v[1] = "undefined" -> FALSE
      [] v[1] = "null" -> FALSE
      [] v[1] = "number" -> v[2] # 0
      [] v[1] = "string" -> v[2] # ""
      [] v[1] = "boolean" -> v[2]
      [] OTHER -> TRUE

\* Number(s) for a string s
StrToNumber(s) ==
    IF s = "" THEN 0
    ELSE IF \E i \in 0..9 : ToString(i) = s
         THEN CHOOSE i \in 0..9 : ToString(i) = s
         ELSE NaN

\* Number(v) for a primitive v that takes part in a loose comparison
ToNumber(v) ==
    CASE v[1] = "number" -> v[2]
      [] v[1] = "boolean" -> IF v[2] THEN 1 ELSE 0
      [] v[1] = "string" -> StrToNumber(v[2])
      [] OTHER -> NaN

\* Array.prototype.join of an array of numbers
RECURSIVE Join(_)
Join(elems) ==
    IF elems = << >> THEN ""
    ELSE IF Len(elems) = 1 THEN ToString(elems[1])
    ELSE ToString(elems[1]) \o "," \o Join(Tail(elems))

\* ToPrimitive of an array compared with a primitive: its elements joined
ToPrimitive(v) == IF v[1] = "array" THEN Str(Join(v[3])) ELSE v

\* a == b.  Two plain objects are two literals of the caller, never the same
\* reference; an object turns into the string "[object Object]", which is
\* neither a number nor a string of the model.  Two arrays are equal when
\* they are the same array object.
LooseEq(a, b) ==
    CASE a[1] \in {"undefined", "null"} -> b[1] \in {"undefined", "null"}
      [] b[1] \in {"undefined", "null"} -> FALSE
      [] a[1] = "node" \/ b[1] = "node" -> a = b
      [] a[1] = "object" \/ b[1] = "object" -> FALSE
      [] a[1] = "array" /\ b[1] = "array" -> a[2] = b[2]
      [] ToPrimitive(a)[1] = ToPrimitive(b)[1] -> ToPrimitive(a) = ToPrimitive(b)
      [] OTHER -> ToNumber(ToPrimitive(a)) # NaN
                  /\ ToNumber(ToPrimitive(a)) = ToNumber(ToPrimitive(b))

\* `${v}` for the null and undefined values
TemplateString(v) == Str(v[1])

----------------------------------------------------------------------------
(* Objects as ordered key/value lists.                                     *)

Has(m, k) == \E i \in 1..Len(m) : m[i][1] = k
At(m, k) == m[CHOOSE i \in 1..Len(m) : m[i][1] = k][2]
Put(m, k, v) ==
    IF Has(m, k)
    THEN [i \in 1..Len(m) |-> IF m[i][1] = k THEN <<k, v>> ELSE m[i]]
    ELSE Append(m, <<k, v>>)
Del(m, k) == SelectSeq(m, LAMBDA e : e[1] # k)

\* v[k] for a value v that is not undefined or null
PropOf(v, k) == IF v[1] = "object" /\ Has(v[2], k) THEN At(v[2], k) ELSE Undef

----------------------------------------------------------------------------
(* The names of the model.                                                 *)

ChildKeys == {"A", "B"}                                   \* keys under which host code creates controls
PropNames == {"controlType", "hideData", "streetNumber", "doors", "windows", "items"}
InternalKeys == {"_controlName"}                          \* the keys of the model that start with "_"
EventNames == {"data", "remove", "newChildControl", "log"} \cup PropNames \cup ChildKeys

\* The control classes of the README: the class files of the controls directory.
ClassFields(c) ==
    CASE c = "house" -> << <<"streetNumber", Str("")>> >>
      [] c = "room" -> << <<"doors", Num(1)>>, <<"windows", Num(1)>> >>
      [] c = "shelf" -> << <<"items", Arr(0, << >>)>> >>   \* a class of the host with an array field
      [] OTHER -> << >>
ClassFiles == {"house", "room", "shelf"}

\* name.match(/^[a-zA-Z0-9_]+$/), for the type names of the model
SingleWord(name) == name \notin {"", "a-b"}


----------------------------------------------------------------------------
(* The heap: h.nodes, h.cls, h.log and h.err are the values the variables  *)
(* nodes, cls, log and err take when the call returns.  Once h.err is set  *)
(* (a TypeError is on its way up the stack) every later step is skipped.   *)

NoListeners == [e \in EventNames |-> << >>]

\* dm's constructor (lines 395-451), run for class c
NewControl(c) ==
    [ctor |-> c,                 \* this.constructor.name
     name |-> "",                \* _controlName
     parent |-> NoNode,          \* _parent
     top |-> NoNode,             \* _topLevelParent
     controls |-> << >>,         \* _controls
     props |-> << >>,            \* _properties
     acc |-> {},                 \* the own keys that are a generated getter/setter pair
     acl |-> << >>,              \* _acl
     fields |-> << <<"controlType", Str(c)>>, <<"hideData", Bool(FALSE)>> >> \o ClassFields(c),
                                 \* the own data fields that are no accessors
     bypass |-> FALSE,           \* _bypassNotify
     lst |-> NoListeners]        \* the EventEmitter's listeners, per event name

\* new dmTopLevelContainer(path): object 1
TopLevelContainer ==
    [NewControl("dmTopLevelContainer") EXCEPT !.name = "topLevelContainer", !.top = 1]

Throw(h) == [h EXCEPT !.err = TRUE]
Logged(h, e) == [h EXCEPT !.log = Append(@, e)]

\* Whether node c is registered in its parent's _controls under its name.
IsChild(ns, c) ==
    /\ ns[c].parent # NoNode
    /\ Has(ns[ns[c].parent].controls, ns[c].name)
    /\ At(ns[ns[c].parent].controls, ns[c].name) = c

\* Entries of the trace: an emit on node n (att: whether the control carried
\* as payload is a registered child at that moment), a listener of host code
\* invoked on node n, an unsubscribing closure calling off on node n, the
\* Init hook of node n.
EmitEntry(h, n, ev, data) ==
    [t |-> "emit", n |-> n, ev |-> ev, fn |-> "", p |-> data,
     att |-> data[1] = "node" /\ IsChild(h.nodes, data[2])]
CallEntry(n, ev, fn, data) ==
    [t |-> "call", n |-> n, ev |-> ev, fn |-> fn, p |-> data, att |-> FALSE]
OffEntry(n, ev, fn) ==
    [t |-> "off", n |-> n, ev |-> ev, fn |-> fn, p |-> Undef, att |-> FALSE]
InitEntry(n) == [t |-> "init", n |-> n, ev |-> "", fn |-> "", p |-> Undef, att |-> FALSE]

\* The access check written at each of the call sites:
\* !this._acl[k] || !this._acl[k].<ch> || this._acl[k].<ch> == 'public'
AclEntry(c, k) == IF Has(c.acl, k) THEN At(c.acl, k) ELSE Undef
Allowed(c, k, ch) ==
    \/ ~Truthy(AclEntry(c, k))
    \/ ~Truthy(PropOf(AclEntry(c, k), ch))
    \/ LooseEq(PropOf(AclEntry(c, k), ch), Str("public"))

\* The generated getter (lines 749-753)
Getter(c, k) == IF Allowed(c, k, "getter") THEN At(c.props, k) ELSE Undef

\* this[k], for the keys of the model: an accessor, an own data field
\* (a declared field of the top level container, a child's alias, a field
\* the host code added) or nothing.
Field(h, n, k) ==
    LET c == h.nodes[n]
    IN  IF k \in c.acc THEN Getter(c, k)
        ELSE IF Has(c.fields, k) THEN At(c.fields, k)
        ELSE Undef

\* typeof v == "number" || typeof v == "string" || typeof v == "boolean" || Array.isArray(v)
Settable(v) == TypeOf(v) \in {"number", "string", "boolean"} \/ v[1] = "array"

----------------------------------------------------------------------------
(* The event channel.                                                      *)

\* A listener of the host code (kind "fn", named fn) or the closure that
\* on/once register on a caller's 'remove' event (kind "unsub": it calls
\* tgt.off(tev, fn)).  id tells the entries of one list apart.
FnListener(id, fn, once) ==
    [id |-> id, kind |-> "fn", fn |-> fn, once |-> once, tgt |-> NoNode, tev |-> ""]
UnsubListener(id, tgt, tev, fn) ==
    [id |-> id, kind |-> "unsub", fn |-> fn, once |-> FALSE, tgt |-> tgt, tev |-> tev]

FreshId(l) == CHOOSE i \in 1..(Len(l) + 1) : \A j \in 1..Len(l) : l[j].id # i

\* EventEmitter.on / EventEmitter.once: append to the event's list
AddListener(h, n, ev, kind, fn, once, tgt, tev) ==
    LET l == h.nodes[n].lst[ev]
        e == IF kind = "fn" THEN FnListener(FreshId(l), fn, once)
             ELSE UnsubListener(FreshId(l), tgt, tev, fn)
    IN  [h EXCEPT !.nodes[n].lst[ev] = Append(l, e)]

\* EventEmitter.off(ev, fn): the last entry registered for fn (plain or once) goes
off(h, n, ev, fn) ==
    LET l == h.nodes[n].lst[ev]
        hit == {i \in 1..Len(l) : l[i].kind = "fn" /\ l[i].fn = fn}
        last == CHOOSE i \in hit : \A j \in hit : j <= i
    IN  IF hit = {} THEN h
        ELSE [h EXCEPT !.nodes[n].lst[ev] =
                  [i \in 1..(Len(l) - 1) |-> IF i < last THEN l[i] ELSE l[i + 1]]]

\* EventEmitter.removeAllListeners()
removeAllListeners(h, n) == [h EXCEPT !.nodes[n].lst = NoListeners]

\* One listener of the list copied by EventEmitter.emit is invoked: a once
\* wrapper first takes itself off the list.
Invoke(h, n, ev, e, data) ==
    LET l == h.nodes[n].lst[ev]
        h1 == IF e.once
              THEN [h EXCEPT !.nodes[n].lst[ev] = SelectSeq(l, LAMBDA x : x.id # e.id)]
              ELSE h
    IN  IF e.kind = "fn" THEN Logged(h1, CallEntry(n, ev, e.fn, data))
        ELSE Logged(off(h1, e.tgt, e.tev, e.fn), OffEntry(e.tgt, e.tev, e.fn))

RECURSIVE InvokeAll(_, _, _, _, _, _)
InvokeAll(h, n, ev, copy, i, data) ==
    IF i > Len(copy) THEN h
    ELSE InvokeAll(Invoke(h, n, ev, copy[i], data), n, ev, copy, i + 1, data)

\* EventEmitter.emit(ev, data): the listeners registered when the emit starts, in order
superEmit(h, n, ev, data) ==
    InvokeAll(Logged(h, EmitEntry(h, n, ev, data)), n, ev, h.nodes[n].lst[ev], 1, data)

\* dm.emit(eventName, data, scope) (lines 463-478)
RECURSIVE emit(_, _, _, _, _)
\* Mutant: the parent emits locally and hands the event no further up.
emit_one_level(h, n, ev, data, scope) ==
    LET c == h.nodes[n]
        h1 == IF scope \in {"local", "local_top", "bubble"} THEN superEmit(h, n, ev, data) ELSE h
        h2 == IF scope = "bubble" /\ c.parent # NoNode
              THEN emit(h1, c.parent, ev, data, "local") ELSE h1
    IN  IF h.err THEN h
        ELSE IF scope \in {"top", "local_top"}
        THEN (IF c.top = NoNode THEN Throw(h2) ELSE emit(h2, c.top, ev, data, "local"))
        ELSE h2
emit(h, n, ev, data, scope) ==
    LET c == h.nodes[n]
        h1 == IF scope \in {"local", "local_top", "bubble"} THEN superEmit(h, n, ev, data) ELSE h
        h2 == IF scope = "bubble" /\ c.parent # NoNode
              THEN emit(h1, c.parent, ev, data, scope) ELSE h1
    IN  IF h.err THEN h
        ELSE IF scope \in {"top", "local_top"}
        THEN (IF c.top = NoNode THEN Throw(h2) ELSE emit(h2, c.top, ev, data, "local"))
        ELSE h2

\* dm.Log(message) (lines 666-668): the formatted string goes out as a `log`
\* event of the top level container, whichever control logs
Log(h, n, message) ==
    LET c == h.nodes[n]
    IN  IF h.err THEN h
        ELSE IF c.top = NoNode THEN Throw(h)
        ELSE emit(h, c.top, "log", Str(c.ctor \o " | " \o c.name \o ": " \o message), "local")

\* dm.on(eventName, listener, options) (lines 486-504), options = {immediate, caller}
on(h, n, ev, fn, immediate, caller) ==
    LET h1 == AddListener(h, n, ev, "fn", fn, FALSE, NoNode, "")
        h2 == IF immediate /\ ~LooseEq(Field(h1, n, ev), Undef)
              THEN Logged(h1, CallEntry(n, ev, fn, Field(h1, n, ev))) ELSE h1
    IN  IF caller # NoNode
        THEN AddListener(h2, caller, "remove", "unsub", fn, FALSE, n, ev)
        ELSE h2

\* dm.once(eventName, listener, options) (lines 512-525), options = {caller}
once(h, n, ev, fn, caller) ==
    LET h1 == AddListener(h, n, ev, "fn", fn, TRUE, NoNode, "")
    IN  IF caller # NoNode
        THEN AddListener(h1, caller, "remove", "unsub", fn, FALSE, n, ev)
        ELSE h1

----------------------------------------------------------------------------
(* The notification router.                                                *)

\* dm._notify(data) (lines 671-683): the parent is notified first, then the
\* control emits 'data' itself.
RECURSIVE _notify(_, _, _)
\* Mutant: the delta goes up without being wrapped under the control's name.
_notify_unwrapped(h, n, data) ==
    LET c == h.nodes[n]
        h1 == IF c.parent # NoNode /\ ~Truthy(Field(h, n, "hideData"))
              THEN _notify(h, c.parent, data)
              ELSE h
    IN  IF h.err THEN h ELSE emit(h1, n, "data", data, "local")
\* Mutant: hideData is not consulted.
_notify_hidden_too(h, n, data) ==
    LET c == h.nodes[n]
        h1 == IF c.parent # NoNode
              THEN _notify(h, c.parent, Obj(<< <<c.name, data>> >>))
              ELSE h
    IN  IF h.err THEN h ELSE emit(h1, n, "data", data, "local")
\* Mutant: the control emits `data` itself before it notifies its parent.
_notify_self_first(h, n, data) ==
    LET c == h.nodes[n]
        h1 == emit(h, n, "data", data, "local")
    IN  IF h.err THEN h
        ELSE IF c.parent # NoNode /\ ~Truthy(Field(h, n, "hideData"))
        THEN _notify(h1, c.parent, Obj(<< <<c.name, data>> >>))
        ELSE h1
_notify(h, n, data) ==
    LET c == h.nodes[n]
        h1 == IF c.parent # NoNode /\ ~Truthy(Field(h, n, "hideData"))
              THEN _notify(h, c.parent, Obj(<< <<c.name, data>> >>))
              ELSE h
    IN  IF h.err THEN h ELSE emit(h1, n, "data", data, "local")

\* The delta of NotifyProperty: the names whose value is defined and whose
\* Get channel is open, in the order given.
RECURSIVE NotifyData(_, _, _, _)
\* Mutant: the Get channel is not consulted.
NotifyData_unfiltered(h, n, names, i) ==
    IF i > Len(names) THEN << >>
    ELSE LET p == names[i]
             rest == NotifyData(h, n, names, i + 1)
         IN  IF ~LooseEq(Field(h, n, p), Undef)
             THEN << <<p, Field(h, n, p)>> >> \o SelectSeq(rest, LAMBDA e : e[1] # p)
             ELSE rest
NotifyData(h, n, names, i) ==
    IF i > Len(names) THEN << >>
    ELSE LET p == names[i]
             rest == NotifyData(h, n, names, i + 1)
         IN  IF Allowed(h.nodes[n], p, "Get") /\ ~LooseEq(Field(h, n, p), Undef)
             THEN << <<p, Field(h, n, p)>> >> \o SelectSeq(rest, LAMBDA e : e[1] # p)
             ELSE rest

\* Mutant: a change that leaves the delta empty is not handed to the router.
NotifyProperty_skip_empty(h, n, propertyNames) ==
    IF h.err \/ NotifyData(h, n, propertyNames, 1) = << >> THEN h
    ELSE _notify(h, n, Obj(NotifyData(h, n, propertyNames, 1)))
\* dm.NotifyProperty(propertyNames) (lines 642-660); a single name is <<name>>
NotifyProperty(h, n, propertyNames) ==
    IF h.err THEN h ELSE _notify(h, n, Obj(NotifyData(h, n, propertyNames, 1)))

\* Mutant: the setter notifies whether or not Set marked the write.
setter_notifying(h, n, k, val) ==
    LET c == h.nodes[n]
        h1 == [h EXCEPT !.nodes[n].props = Put(@, k, val)]
        h2 == NotifyProperty(h1, n, <<k>>)
        h3 == IF ~LooseEq(At(c.props, k), val) /\ Allowed(c, k, "setter")
              THEN emit(h2, n, k, val, "local")
              ELSE h
    IN  IF h.err THEN h
        ELSE IF h3.err THEN h3
        ELSE [h3 EXCEPT !.nodes[n].bypass = FALSE]
\* Mutant: the setter does not compare the new value with the stored one.
setter_ungated(h, n, k, val) ==
    LET c == h.nodes[n]
        h1 == [h EXCEPT !.nodes[n].props = Put(@, k, val)]
        h2 == IF ~c.bypass THEN NotifyProperty(h1, n, <<k>>)
              ELSE [h1 EXCEPT !.nodes[n].bypass = FALSE]
        h3 == IF Allowed(c, k, "setter")
              THEN emit(h2, n, k, val, "local")
              ELSE h
    IN  IF h.err THEN h
        ELSE IF h3.err THEN h3
        ELSE [h3 EXCEPT !.nodes[n].bypass = FALSE]
\* The generated setter (lines 754-768)
setter(h, n, k, val) ==
    LET c == h.nodes[n]
        h1 == [h EXCEPT !.nodes[n].props = Put(@, k, val)]
        h2 == IF ~c.bypass THEN NotifyProperty(h1, n, <<k>>)
              ELSE [h1 EXCEPT !.nodes[n].bypass = FALSE]
        h3 == IF ~LooseEq(At(c.props, k), val) /\ Allowed(c, k, "setter")
              THEN emit(h2, n, k, val, "local")
              ELSE h
    IN  IF h.err THEN h
        ELSE IF h3.err THEN h3
        ELSE [h3 EXCEPT !.nodes[n].bypass = FALSE]

\* this[k] = val: through the generated setter when k has one
Assign(h, n, k, val) ==
    IF h.err THEN h
    ELSE IF k \in h.nodes[n].acc THEN setter(h, n, k, val)
    ELSE [h EXCEPT !.nodes[n].fields = Put(@, k, val)]

\* dm.SetAccess(propertyName, ACL) (lines 798-802)
SetAccess(h, n, propertyName, ACL) ==
    IF ~LooseEq(Field(h, n, propertyName), Undef)
    THEN [h EXCEPT !.nodes[n].acl = Put(@, propertyName, ACL)]
    ELSE h

----------------------------------------------------------------------------
(* The tree mutation engine.                                               *)

\* Mutant: the order of the earlier copy (lines 200-212), which takes the
\* child out of the mapping before it emits 'remove'.
RemoveChild_detach_first(h, n, control) ==
    LET c == At(h.nodes[n].controls, control)
        h1 == [h EXCEPT !.nodes[n].controls = Del(@, control),
                        !.nodes[n].fields = Del(@, control),
                        !.nodes[n].acc = @ \ {control}]
        h2 == emit(h1, c, "remove", Node(c), "local")
    IN  IF h.err \/ ~Has(h.nodes[n].controls, control) THEN h
        ELSE IF h2.err THEN h2
        ELSE removeAllListeners(h2, c)
\* dm.RemoveChild(control) (lines 623-636).  `delete this[control]` takes
\* the own key away whatever it is: the alias of the child or, for a child
\* made under the name of a property, the property's getter/setter pair
\* (the pair replaced a configurable field and is configurable itself).
RemoveChild(h, n, control) ==
    LET c == At(h.nodes[n].controls, control)
        h1 == emit(h, c, "remove", Node(c), "local")
        h2 == [h1 EXCEPT !.nodes[n].controls = Del(@, control),
                         !.nodes[n].fields = Del(@, control),
                         !.nodes[n].acc = @ \ {control}]
    IN  IF h.err \/ ~Has(h.nodes[n].controls, control) THEN h
        ELSE IF h1.err THEN h1
        ELSE removeAllListeners(h2, c)

\* The keys that _cls_, a plain object, inherits from Object.prototype and
\* whose value is a function that is no constructor: tp._cls_[name] is
\* truthy for them without any class being loaded.
Inherited == {"toString"}

\* dm._getDynamicClass(name) (lines 690-714): the class, or "" for undefined;
\* LoadClass is what the call leaves in the cache of the top level container.
_getDynamicClass(h, n, name) ==
    IF name \in h.cls \cup Inherited THEN name
    ELSE IF SingleWord(name) /\ name \in ClassFiles THEN name
    ELSE ""
LoadClass(h, n, name) ==
    IF _getDynamicClass(h, n, name) # "" /\ name \notin Inherited THEN [h EXCEPT !.cls = @ \cup {name}] ELSE h

\* The accessor generator (lines 735-771): the settable own fields whose name
\* does not start with "_" move to _properties
Generated(c) == SelectSeq(c.fields, LAMBDA e : e[1] \notin InternalKeys /\ Settable(e[2]))
WithAccessors(c) ==
    [c EXCEPT !.props = Generated(c),
              !.acc = {Generated(c)[i][1] : i \in 1..Len(Generated(c))},
              !.fields = SelectSeq(c.fields, LAMBDA e : ~Has(Generated(c), e[1]))]

RECURSIVE Set(_, _, _)
RECURSIVE _createControl(_, _, _, _)

\* Mutant: the Set channel is not consulted.
SetKey_unchecked(h, n, data, k) ==
    LET c == h.nodes[n]
        v == At(data[2], k)
    IN  IF h.err THEN h
        ELSE IF k = "remove"
        THEN (IF LooseEq(v, Bool(TRUE))
              THEN (IF c.parent = NoNode THEN Throw(h) ELSE RemoveChild(h, c.parent, c.name))
              ELSE h)
        ELSE IF k \in InternalKeys \/ k = "controlType" THEN h
        ELSE IF ~LooseEq(Field(h, n, k), Undef) /\ Settable(Field(h, n, k))
        THEN Assign([h EXCEPT !.nodes[n].bypass = TRUE], n, k,
                    IF ~LooseEq(v, Null) THEN v ELSE TemplateString(v))
        ELSE IF Has(c.controls, k) THEN Set(h, At(c.controls, k), v)
        ELSE IF ~LooseEq(v, Null) /\ ~LooseEq(PropOf(v, "controlType"), Undef)
        THEN _createControl(h, n, v, k)
        ELSE h
\* Mutant: a key that is no property and no child, and whose value is no
\* data of a control, becomes a property.
SetKey_adding(h, n, data, k) ==
    LET c == h.nodes[n]
        v == At(data[2], k)
    IN  IF h.err THEN h
        ELSE IF k = "remove"
        THEN (IF LooseEq(v, Bool(TRUE))
              THEN (IF c.parent = NoNode THEN Throw(h) ELSE RemoveChild(h, c.parent, c.name))
              ELSE h)
        ELSE IF k \in InternalKeys \/ k = "controlType" THEN h
        ELSE IF ~LooseEq(Field(h, n, k), Undef) /\ Settable(Field(h, n, k))
        THEN (IF Allowed(c, k, "Set")
              THEN Assign([h EXCEPT !.nodes[n].bypass = TRUE], n, k,
                          IF ~LooseEq(v, Null) THEN v ELSE TemplateString(v))
              ELSE h)
        ELSE IF Has(c.controls, k) THEN Set(h, At(c.controls, k), v)
        ELSE IF ~LooseEq(v, Null) /\ ~LooseEq(PropOf(v, "controlType"), Undef)
        THEN _createControl(h, n, v, k)
        ELSE [h EXCEPT !.nodes[n].props = Put(@, k, v)]
\* One key of the data object given to Set (lines 549-584)
SetKey(h, n, data, k) ==
    LET c == h.nodes[n]
        v == At(data[2], k)
    IN  IF h.err THEN h
        ELSE IF k = "remove"
        THEN (IF LooseEq(v, Bool(TRUE))
              THEN (IF c.parent = NoNode THEN Throw(h) ELSE RemoveChild(h, c.parent, c.name))
              ELSE h)
        ELSE IF k \in InternalKeys \/ k = "controlType" THEN h
        ELSE IF ~LooseEq(Field(h, n, k), Undef) /\ Settable(Field(h, n, k))
        THEN (IF Allowed(c, k, "Set")
              THEN Assign([h EXCEPT !.nodes[n].bypass = TRUE], n, k,
                          IF ~LooseEq(v, Null) THEN v ELSE TemplateString(v))
              ELSE h)
        ELSE IF Has(c.controls, k) THEN Set(h, At(c.controls, k), v)
        ELSE IF ~LooseEq(v, Null) /\ ~LooseEq(PropOf(v, "controlType"), Undef)
        THEN _createControl(h, n, v, k)
        ELSE h

RECURSIVE SetKeys(_, _, _, _)
SetKeys(h, n, data, i) ==
    IF i > Len(data[2]) THEN h
    ELSE SetKeys(SetKey(h, n, data, data[2][i][1]), n, data, i + 1)

\* dm.Set(data) (lines 546-587)
Set(h, n, data) ==
    IF ~h.err /\ Truthy(data) /\ data[1] = "object" THEN SetKeys(h, n, data, 1) ELSE h

\* Mutant: the root link of the new control is the creating control.
_createControl_top_is_parent(h, n, data, name) ==
    LET controlClass == _getDynamicClass(h, n, PropOf(data, "controlType")[2])
        id == Len(h.nodes) + 1
        control == WithAccessors([NewControl(controlClass) EXCEPT
                       !.name = name, !.parent = n, !.top = n])
        h1 == LoadClass(h, n, PropOf(data, "controlType")[2])
        h2 == [h1 EXCEPT !.nodes = Append(@, control)]
        h3 == [h2 EXCEPT !.nodes[n].controls = Put(@, name, id)]
        h4 == Assign(h3, n, name, Node(id))
        h5 == Set(h4, id, data)
        h6 == IF h5.err THEN h5 ELSE Logged(h5, InitEntry(id))
        h7 == emit(h6, n, name, Node(id), "local")
    IN  IF h.err THEN h
        ELSE IF controlClass \in Inherited THEN Throw(h)     \* new controlClass(): not a constructor
        ELSE IF controlClass # "" THEN emit(h7, n, "newChildControl", Node(id), "local")
        ELSE h1
\* Mutant: the Init hook runs before the data is applied to the new control.
_createControl_init_first(h, n, data, name) ==
    LET controlClass == _getDynamicClass(h, n, PropOf(data, "controlType")[2])
        id == Len(h.nodes) + 1
        control == WithAccessors([NewControl(controlClass) EXCEPT
                       !.name = name, !.parent = n, !.top = h.nodes[n].top])
        h1 == LoadClass(h, n, PropOf(data, "controlType")[2])
        h2 == [h1 EXCEPT !.nodes = Append(@, control)]
        h3 == [h2 EXCEPT !.nodes[n].controls = Put(@, name, id)]
        h4 == Assign(h3, n, name, Node(id))
        h5 == Logged(h4, InitEntry(id))
        h6 == Set(h5, id, data)
        h7 == emit(h6, n, name, Node(id), "local")
    IN  IF h.err THEN h
        ELSE IF controlClass \in Inherited THEN Throw(h)     \* new controlClass(): not a constructor
        ELSE IF controlClass # "" THEN emit(h7, n, "newChildControl", Node(id), "local")
        ELSE h1
\* dm._createControl(data, name) (lines 721-791)
_createControl(h, n, data, name) ==
    LET controlClass == _getDynamicClass(h, n, PropOf(data, "controlType")[2])
        id == Len(h.nodes) + 1
        control == WithAccessors([NewControl(controlClass) EXCEPT
                       !.name = name, !.parent = n, !.top = h.nodes[n].top])
        h1 == LoadClass(h, n, PropOf(data, "controlType")[2])
        h2 == [h1 EXCEPT !.nodes = Append(@, control)]
        h3 == [h2 EXCEPT !.nodes[n].controls = Put(@, name, id)]
        h4 == Assign(h3, n, name, Node(id))
        h5 == Set(h4, id, data)
        h6 == IF h5.err THEN h5 ELSE Logged(h5, InitEntry(id))
        h7 == emit(h6, n, name, Node(id), "local")
    IN  IF h.err THEN h
        ELSE IF controlClass \in Inherited THEN Throw(h)     \* new controlClass(): not a constructor
        ELSE IF controlClass # "" THEN emit(h7, n, "newChildControl", Node(id), "local")
        ELSE h1

\* dm.Get(options) (lines 594-617): the plain object returned
RECURSIVE Get(_, _, _)
\* Mutant: the sparse option is not looked at.
GetProps_full(c, options) ==
    SelectSeq(c.props, LAMBDA e :
        (~Truthy(AclEntry(c, e[1])) \/ ~Truthy(PropOf(AclEntry(c, e[1]), "Get"))
            \/ LooseEq(AclEntry(c, e[1]), Str("public"))))
\* Get: own properties (lines 598-604)
GetProps(c, options) ==
    SelectSeq(c.props, LAMBDA e :
        /\ (~Truthy(AclEntry(c, e[1])) \/ ~Truthy(PropOf(AclEntry(c, e[1]), "Get"))
               \/ LooseEq(AclEntry(c, e[1]), Str("public")))
        /\ ((Truthy(PropOf(options, "sparse")) /\ ~LooseEq(e[2], Str("")))
               \/ ~Truthy(PropOf(options, "sparse"))))
RECURSIVE GetControls(_, _, _, _)
GetControls(h, n, options, i) ==
    LET cs == h.nodes[n].controls
    IN  IF i > Len(cs) THEN << >>
        ELSE (IF ~Truthy(Field(h, cs[i][2], "hideData"))
              THEN << <<cs[i][1], Get(h, cs[i][2], options)>> >> ELSE << >>)
             \o GetControls(h, n, options, i + 1)
RECURSIVE PutAll(_, _, _)
PutAll(m, kvs, i) == IF i > Len(kvs) THEN m ELSE PutAll(Put(m, kvs[i][1], kvs[i][2]), kvs, i + 1)
Get(h, n, options) ==
    Obj(PutAll(GetProps(h.nodes[n], options), GetControls(h, n, options, 1), 1))

----------------------------------------------------------------------------
(* The host code: one action per call of the API.                          *)

Cur == [nodes |-> nodes, cls |-> cls, log |-> << >>, err |-> FALSE]

Returns(h) ==
    /\ Len(h.nodes) <= MaxNodes
    /\ nodes' = h.nodes
    /\ cls' = h.cls
    /\ log' = h.log
    /\ err' = h.err

Call(c, n, k, v, fn, caller, flag) ==
    [call |-> c, n |-> n, k |-> k, v |-> v, fn |-> fn, caller |-> caller, flag |-> flag]

Ids == 1..Len(nodes)

\* Data objects handed to Set.
O1(k, v) == Obj(<< <<k, v>> >>)
O2(k1, v1, k2, v2) == Obj(<< <<k1, v1>>, <<k2, v2>> >>)
TreeData ==
    {O1("A", O2("controlType", Str("house"), "B", O1("controlType", Str("room")))),
     O1("A", O1("B", O2("controlType", Str("room"), "doors", Num(2)))),
     O1("A", O1("B", O1("doors", Num(1)))),
     O1("A", O1("hideData", Bool(TRUE))),
     O1("A", O1("B", O1("hideData", Bool(FALSE)))),
     O1("A", O1("B", O1("remove", Bool(TRUE)))),
     O1("A", O1("remove", Bool(TRUE)))}

\* Values assigned by host code, per property.
AssignValues ==
    {<<"doors", Num(1)>>, <<"doors", Num(2)>>,
     <<"hideData", Bool(TRUE)>>, <<"hideData", Bool(FALSE)>>}

\* Policies handed to SetAccess.
Policies ==
    {O1("Set", Str("none")), O1("Get", Str("none")),
     O1("setter", Str("none")), O1("getter", Str("none")),
     O2("Set", Str("none"), "Get", Str("public"))}
AccessProps == {"doors"}

NotifyNames == {<<"doors">>, <<"windows", "doors">>}

Init ==
    /\ nodes = <<TopLevelContainer>>
    /\ cls = {}
    /\ log = << >>
    /\ err = FALSE
    /\ op = Call("new", 1, "", Undef, "", NoNode, FALSE)

\* control.Set(data)
DoSet(D) ==
    \E n \in {1}, d \in D :
        /\ Returns(Set(Cur, n, d))
        /\ op' = Call("Set", n, "", d, "", NoNode, FALSE)

\* control[k] = v, for a property with a generated setter
DoAssign(V) ==
    \E n \in Ids, kv \in V :
        /\ kv[1] \in nodes[n].acc
        /\ Returns(Assign(Cur, n, kv[1], kv[2]))
        /\ op' = Call("assign", n, kv[1], kv[2], "", NoNode, FALSE)

\* control.SetAccess(propertyName, ACL)
DoSetAccess(P) ==
    \E n \in Ids, k \in AccessProps, a \in P :
        /\ Has(nodes[n].props, k)
        /\ Returns(SetAccess(Cur, n, k, a))
        /\ op' = Call("SetAccess", n, k, a, "", NoNode, FALSE)

\* control.RemoveChild(name)
DoRemoveChild ==
    \E n \in Ids, k \in ChildKeys :
        /\ Returns(RemoveChild(Cur, n, k))
        /\ op' = Call("RemoveChild", n, k, Undef, "", NoNode, FALSE)

\* control.NotifyProperty(names)
DoNotifyProperty ==
    \E n \in Ids, names \in NotifyNames :
        /\ Has(nodes[n].props, names[1])
        /\ Returns(NotifyProperty(Cur, n, names))
        /\ op' = Call("NotifyProperty", n, names[1], Num(Len(names)), "", NoNode, FALSE)

Next ==
    \/ DoSet(TreeData)
    \/ DoAssign(AssignValues)
    \/ DoSetAccess(Policies)
    \/ DoRemoveChild
    \/ DoNotifyProperty

Spec == Init /\ [][Next]_vars

----------------------------------------------------------------------------
(* The host code of the event channel: subscribing, emitting, removing.    *)

Listeners == {"L1"}                         \* the listener functions of the host code
OnEvents == {"log"}                         \* the events host code subscribes to
Scopes == {"local", "bubble", "top", "local_top"}
LogMessages == {"x"}                        \* the messages host code logs
EventData == {O1("A", O2("controlType", Str("house"), "B", O1("controlType", Str("room"))))}

\* The entries of all listener lists: listeners of host code and unsubscribing closures.
RECURSIVE Registered(_)
Registered(ns) ==
    IF ns = << >> THEN 0
    ELSE Len(ns[1].lst["log"]) + Len(ns[1].lst["remove"]) + Registered(Tail(ns))

\* control.on(eventName, listener, {immediate, caller})
DoOn ==
    \E n \in Ids, ev \in OnEvents, fn \in Listeners, caller \in {NoNode} \cup (Ids \ {1}) :
        /\ Registered(on(Cur, n, ev, fn, FALSE, caller).nodes) <= MaxListeners
        /\ Returns(on(Cur, n, ev, fn, FALSE, caller))
        /\ op' = Call("on", n, ev, Undef, fn, caller, FALSE)

\* control.once(eventName, listener, {caller})
DoOnce ==
    \E n \in Ids, ev \in OnEvents, fn \in Listeners, caller \in {NoNode} \cup (Ids \ {1}) :
        /\ Registered(once(Cur, n, ev, fn, caller).nodes) <= MaxListeners
        /\ Returns(once(Cur, n, ev, fn, caller))
        /\ op' = Call("once", n, ev, Undef, fn, caller, FALSE)

\* control.emit("log", message, scope)
DoEmit(S) ==
    \E n \in Ids, scope \in S :
        /\ Returns(emit(Cur, n, "log", Str("m"), scope))
        /\ op' = Call("emit", n, "log", Str(scope), "", NoNode, FALSE)

\* control.Log(message)
DoLog ==
    \E n \in Ids, message \in LogMessages :
        /\ Returns(Log(Cur, n, message))
        /\ op' = Call("Log", n, "", Str(message), "", NoNode, FALSE)

NextEv ==
    \/ DoSet(EventData)
    \/ DoOn
    \/ DoOnce
    \/ DoEmit({"local"})
    \/ DoLog
    \/ DoRemoveChild

SpecEv == Init /\ [][NextEv]_vars

\* The host code that subscribes and emits with each of the four scopes.
NextScope ==
    \/ DoSet(EventData)
    \/ DoOn
    \/ DoEmit(Scopes)
    \/ DoLog

SpecScope == Init /\ [][NextScope]_vars

\* The host code that sets policies under any name: a property, a child's
\* key, a name the control does not have.
AccessNames == {"doors", "B", "ghost"}
DoSetAccessAny ==
    \E n \in Ids, k \in AccessNames, a \in Policies :
        /\ Returns(SetAccess(Cur, n, k, a))
        /\ op' = Call("SetAccess", n, k, a, "", NoNode, FALSE)

NextAccess ==
    \/ DoSet(EventData)
    \/ DoSetAccessAny

SpecAccess == Init /\ [][NextAccess]_vars

----------------------------------------------------------------------------
(* The host code that builds and rewrites a tree with data objects: the    *)
(* README's data model, data that asks the top level container to remove   *)
(* itself, type names that resolve to no class, values equal or loosely    *)
(* equal to the stored ones, an object where a property is, arrays.        *)

Room == O1("controlType", Str("room"))
SetData ==
    {O1("A", O2("controlType", Str("house"), "B", O2("controlType", Str("room"), "windows", Num(2)))),
     O1("A", O1("controlType", Str("house"))),
     O2("remove", Bool(TRUE), "A", O1("controlType", Str("house"))),
     O2("A", O1("controlType", Str("ghost")), "B", Room),
     O2("A", O1("controlType", Str("a-b")), "B", Room),
     O2("A", O1("controlType", Str("toString")), "B", Room),
     O1("A", O2("controlType", Str("shelf"), "items", Arr(1, <<1>>))),
     O1("A", O1("items", Arr(2, <<1>>))),
     O1("A", O1("B", O1("doors", Num(0)))),
     O1("A", O1("B", O1("doors", Num(2)))),
     O1("A", O1("B", O1("doors", Str("1")))),
     O1("A", O1("streetNumber", Room)),
     O1("A", O1("streetNumber", Null)),
     O1("A", O1("hideData", Bool(TRUE)))}

DataValues ==
    {<<"doors", Num(1)>>, <<"doors", Num(2)>>, <<"doors", Str("1")>>, <<"streetNumber", Str("")>>,
     <<"items", Arr(2, <<1>>)>>, <<"items", Arr(3, <<1>>)>>}

NextData ==
    \/ DoSet(SetData)
    \/ DoAssign(DataValues)

SpecData == Init /\ [][NextData]_vars

\* A tree built by Set calls alone.
NextBuild == DoSet(SetData)

SpecBuild == Init /\ [][NextBuild]_vars

----------------------------------------------------------------------------
(* The host code that listens to `data`: listeners on the controls of a    *)
(* tree, and direct assignments below them.                                *)

\* The listeners registered for `data`, over all controls.
RECURSIVE DataListeners(_)
DataListeners(ns) ==
    IF ns = << >> THEN 0 ELSE Len(ns[1].lst["data"]) + DataListeners(Tail(ns))

\* control.on('data', listener)
DoOnData ==
    \E n \in Ids, fn \in Listeners :
        /\ DataListeners(on(Cur, n, "data", fn, FALSE, NoNode).nodes) <= MaxListeners
        /\ Returns(on(Cur, n, "data", fn, FALSE, NoNode))
        /\ op' = Call("on", n, "data", Undef, fn, NoNode, FALSE)

NextNotify ==
    \/ DoSet(EventData)
    \/ DoOnData
    \/ DoAssign(AssignValues)

SpecNotify == Init /\ [][NextNotify]_vars

----------------------------------------------------------------------------
(* The host code that reshapes a tree: controls made, removed and made     *)
(* again, also under the name of a property; a control whose data asks for *)
(* its own removal; assignments to a declared name whose getter/setter     *)
(* pair was deleted with the child of that name.                           *)

House == O1("controlType", Str("house"))
ShapeData ==
    {O1("A", House),
     O1("A", O1("streetNumber", Room)),
     O1("A", O1("streetNumber", O1("remove", Bool(TRUE)))),
     O1("A", O1("streetNumber", Str("y"))),
     O1("A", O1("doors", Num(2))),
     O1("A", O2("controlType", Str("house"), "remove", Bool(TRUE))),
     O1("A", O1("B", Room)),
     O1("A", O1("remove", Bool(TRUE)))}

ShapeValues ==
    {<<"streetNumber", Str("x")>>, <<"hideData", Bool(TRUE)>>, <<"doors", Num(2)>>}

ShapeKeys == {"A", "B", "streetNumber"}

ShapePolicies == {O1("Get", Str("none")), O1("setter", Str("none"))}

\* control[k] = v, for a name k the control's class declares: through the
\* generated setter, or onto a plain field when the pair is gone
DoAssignDeclared(V) ==
    \E n \in Ids, kv \in V :
        /\ Has(nodes[n].props, kv[1])
        /\ Returns(Assign(Cur, n, kv[1], kv[2]))
        /\ op' = Call("assign", n, kv[1], kv[2], "", NoNode, FALSE)

\* control.RemoveChild(name), for the keys under which children are made
DoRemoveChildAny ==
    \E n \in Ids, k \in ShapeKeys :
        /\ Returns(RemoveChild(Cur, n, k))
        /\ op' = Call("RemoveChild", n, k, Undef, "", NoNode, FALSE)

NextShape ==
    \/ DoSet(ShapeData)
    \/ DoAssignDeclared(ShapeValues)
    \/ DoSetAccess(ShapePolicies)
    \/ DoRemoveChildAny

SpecShape == Init /\ [][NextShape]_vars

----------------------------------------------------------------------------
(* What the claims speak of.                                               *)

Stored(ns, n, k) == At(ns[n].props, k)
Created(ns) == {n \in 1..Len(ns) : ns[n].props # << >>}
Hidden(ns, n) == Truthy(Stored(ns, n, "hideData"))

\* b is the B of a tree root -> A -> B
Chain3(ns, b) ==
    /\ IsChild(ns, b)
    /\ IsChild(ns, ns[b].parent)
    /\ ns[ns[b].parent].parent = 1

EmitsOf(l, ev) == SelectSeq(l, LAMBDA e : e.t = "emit" /\ e.ev = ev)
Range(q) == {q[i] : i \in 1..Len(q)}
OnNode(l, ev, n) == SelectSeq(EmitsOf(l, ev), LAMBDA e : e.n = n)

\* The three `data` events of a change of B's property k to v, bubbled to the root.
Bubbled(ns, l, b, delta) ==
    LET a == ns[b].parent
        d == EmitsOf(l, "data")
    IN  /\ Len(d) = 3
        /\ {<<e.n, e.p>> : e \in Range(d)} =
              {<<b, delta>>,
               <<a, O1(ns[b].name, delta)>>,
               <<1, O1(ns[a].name, O1(ns[b].name, delta))>>}

DirectChange(b, k) ==
    /\ op'.call = "assign" /\ op'.n = b /\ op'.k = k
    /\ Stored(nodes, b, k) # Stored(nodes', b, k)

\* C1, as stated: in a tree root -> A -> B with neither A nor B hidden, a
\* direct assignment that changes property p of B to v emits `data` once on
\* B with {p: v}, once on A with {B: {p: v}} and once on the root with
\* {A: {B: {p: v}}}.
C1_AsStated ==
    [][\A b \in Created(nodes), k \in PropNames :
          (/\ Has(nodes[b].props, k)
           /\ DirectChange(b, k)
           /\ Chain3(nodes', b)
           /\ ~Hidden(nodes', b) /\ ~Hidden(nodes', nodes'[b].parent))
          => Bubbled(nodes', log', b, O1(k, op'.v))]_vars

\* C1, amended: the same, for a property p whose Get and getter channels are
\* not denied (with either denied the three events carry an empty delta).
C1_Bubbling ==
    [][\A b \in Created(nodes), k \in PropNames :
          (/\ Has(nodes[b].props, k)
           /\ DirectChange(b, k)
           /\ Chain3(nodes', b)
           /\ ~Hidden(nodes', b) /\ ~Hidden(nodes', nodes'[b].parent)
           /\ Allowed(nodes'[b], k, "Get") /\ Allowed(nodes'[b], k, "getter"))
          => Bubbled(nodes', log', b, O1(k, op'.v))]_vars

C1_Witness ==
    /\ op.call = "assign" /\ op.k = "doors" /\ op.v = Num(2)
    /\ Chain3(nodes, op.n)
    /\ \E e \in Range(EmitsOf(log, "data")) :
          e.n = 1 /\ e.p = O1("A", O1("B", O1("doors", Num(2))))

\* A write of Set that changes the stored value of property k of node n.
SetChange(n, k) ==
    /\ op'.call = "Set"
    /\ Has(nodes[n].props, k)
    /\ Stored(nodes, n, k) # Stored(nodes', n, k)

\* C2, as stated: when Set changes the value of an existing property, the
\* node emits a `data` event carrying the delta, and the wrapped delta goes
\* to the parent of a node that is not hidden, as for a direct assignment.
C2_AsStated ==
    [][\A n \in Created(nodes), k \in PropNames :
          SetChange(n, k) =>
              /\ \E e \in Range(OnNode(log', "data", n)) :
                    e.p = O1(k, Stored(nodes', n, k))
              /\ ~Hidden(nodes', n) =>
                    \E e \in Range(OnNode(log', "data", nodes'[n].parent)) :
                        e.p = O1(nodes'[n].name, O1(k, Stored(nodes', n, k)))]_vars

\* C2, amended: a Set call bypasses the notification router: it emits no
\* `data` event on any node; a property whose value it changes emits only
\* the event named after the property, carrying the new value.
C2_SetBypassesRouter ==
    [][op'.call = "Set" =>
          /\ EmitsOf(log', "data") = << >>
          /\ \A n \in Created(nodes), k \in PropNames :
                SetChange(n, k) =>
                    \E e \in Range(OnNode(log', k, n)) : e.p = Stored(nodes', n, k)]_vars

C2_Witness ==
    /\ op.call = "Set"
    /\ op.v = O1("A", O1("B", O1("doors", Num(1))))
    /\ \E e \in Range(EmitsOf(log, "doors")) : e.p = Num(1) /\ Chain3(nodes, e.n)
    /\ EmitsOf(log, "data") = << >>

Sparse(b) == O1("sparse", Bool(b))

\* C3: in a tree root -> A -> B with A hidden, a change in A or B brings no
\* `data` event to the root, root.Get() holds no key for A (and so none of
\* A's descendants), and a direct change of a property of B still emits
\* `data` on B.
C3_HiddenSuppression ==
    [][\A b \in Created(nodes') :
          (Chain3(nodes', b) /\ Hidden(nodes', nodes'[b].parent)) =>
              LET a == nodes'[b].parent
              IN  /\ ((op'.call \in {"assign", "NotifyProperty"} /\ op'.n \in {a, b})
                          \/ op'.call = "Set")
                        => OnNode(log', "data", 1) = << >>
                  /\ \A sp \in BOOLEAN : ~Has(Get(Cur', 1, Sparse(sp))[2], nodes'[a].name)
                  /\ \A k \in PropNames :
                        (b \in Created(nodes) /\ Has(nodes[b].props, k) /\ DirectChange(b, k))
                            => Len(OnNode(log', "data", b)) = 1]_vars

C3_Witness ==
    /\ op.call = "assign" /\ op.k = "doors"
    /\ Chain3(nodes, op.n) /\ Hidden(nodes, nodes[op.n].parent)
    /\ Len(OnNode(log, "data", op.n)) = 1
    /\ Len(OnNode(log, "data", nodes[op.n].parent)) = 1
    /\ OnNode(log, "data", 1) = << >>
    /\ Get(Cur, 1, Sparse(FALSE)) = Obj(<< >>)

Policy(ns, n, k) == AclEntry(ns[n], k)
Channel(ns, n, k, ch) == PropOf(Policy(ns, n, k), ch)

\* C4: a property whose policy denies Set (and leaves setter alone) keeps its
\* stored value through every Set call, which emits neither the property's
\* event nor `data` on the node, also when the call holds the key with
\* another value; a direct assignment of another value stores it.
C4_SetDenied ==
    [][\A n \in Created(nodes), k \in PropNames :
          (/\ Has(nodes[n].props, k)
           /\ Channel(nodes, n, k, "Set") = Str("none")
           /\ Channel(nodes, n, k, "setter") = Undef)
          => /\ op'.call = "Set" =>
                    /\ Stored(nodes', n, k) = Stored(nodes, n, k)
                    /\ OnNode(log', k, n) = << >>
                    /\ OnNode(log', "data", n) = << >>
             /\ (op'.call = "assign" /\ op'.n = n /\ op'.k = k
                     /\ ~LooseEq(Stored(nodes, n, k), op'.v))
                    => Stored(nodes', n, k) = op'.v]_vars

C4_Witness ==
    /\ op.call = "Set"
    /\ op.v = O1("A", O1("B", O1("doors", Num(1))))
    /\ log = << >>
    /\ \E b \in Created(nodes) :
          /\ Chain3(nodes, b) /\ nodes[b].name = "B"
          /\ Policy(nodes, b, "doors") = O1("Set", Str("none"))
          /\ Stored(nodes, b, "doors") = Num(2)

\* m is n or an ancestor of n by the parent links; the names from m down to n
RECURSIVE AncestorOrSelf(_, _, _)
AncestorOrSelf(ns, m, n) ==
    n = m \/ (ns[n].parent # NoNode /\ AncestorOrSelf(ns, m, ns[n].parent))
RECURSIVE NamesBetween(_, _, _)
NamesBetween(ns, m, n) ==
    IF n = m THEN << >> ELSE Append(NamesBetween(ns, m, ns[n].parent), ns[n].name)
\* every control from n up to m (m excluded) is a registered child
RECURSIVE AttachedBelow(_, _, _)
AttachedBelow(ns, m, n) ==
    n = m \/ (IsChild(ns, n) /\ AttachedBelow(ns, m, ns[n].parent))
RECURSIVE Dig(_, _)
Dig(v, path) == IF path = << >> THEN v ELSE Dig(PropOf(v, Head(path)), Tail(path))
Lacks(v, k) == v[1] # "object" \/ ~Has(v[2], k)

\* C5: a property k of node n whose policy sets Get to 'none' is in no Get
\* output, of n or of an ancestor of n, sparse or not, while the properties
\* of n without a policy are in the output of n; and k is in no delta of a
\* `data` event that a call on n emits, on n or on an ancestor.
C5_GetDenied ==
    \A n \in Created(nodes), k \in PropNames :
        (Has(nodes[n].props, k) /\ Channel(nodes, n, k, "Get") = Str("none")) =>
            /\ \A m \in Ids, sp \in BOOLEAN :
                  (AncestorOrSelf(nodes, m, n) /\ AttachedBelow(nodes, m, n))
                      => Lacks(Dig(Get(Cur, m, Sparse(sp)), NamesBetween(nodes, m, n)), k)
            /\ \A k2 \in PropNames :
                  (Has(nodes[n].props, k2) /\ Policy(nodes, n, k2) = Undef)
                      => Has(Get(Cur, n, Sparse(FALSE))[2], k2)
            /\ (op.call \in {"assign", "NotifyProperty"} /\ op.n = n) =>
                  \A e \in Range(EmitsOf(log, "data")) :
                      AncestorOrSelf(nodes, e.n, n)
                          /\ Lacks(Dig(e.p, NamesBetween(nodes, e.n, n)), k)

C5_Witness ==
    /\ op.call = "assign" /\ op.k = "doors" /\ op.v = Num(2)
    /\ Chain3(nodes, op.n)
    /\ Channel(nodes, op.n, "doors", "Get") = Str("none")
    /\ Stored(nodes, op.n, "doors") = Num(2)
    /\ \E e \in Range(OnNode(log, "data", 1)) : e.p = O1("A", O1("B", Obj(<< >>)))
    /\ Dig(Get(Cur, 1, Sparse(TRUE)), <<"A", "B">>) =
          Obj(<< <<"controlType", Str("room")>>, <<"windows", Num(1)>> >>)

\* The values written to a property to compare two trees.
WriteValues == {Num(1), Num(2)}

\* The policy v with its entries of value 'public' taken out, and the heap
\* whose policies all have them taken out.
DropPublic(v) ==
    IF v[1] = "object" THEN Obj(SelectSeq(v[2], LAMBDA e : e[2] # Str("public"))) ELSE v
WithoutPublic(h) ==
    [h EXCEPT !.nodes =
        [i \in 1..Len(h.nodes) |->
            [h.nodes[i] EXCEPT !.acl =
                [j \in 1..Len(h.nodes[i].acl) |->
                    <<h.nodes[i].acl[j][1], DropPublic(h.nodes[i].acl[j][2])>>]]]]
Props(h) == [i \in 1..Len(h.nodes) |-> h.nodes[i].props]

\* C6, as stated: an entry of value 'public' behaves as an absent entry, for
\* every channel: Get output, notification deltas, Set calls and direct
\* assignments come out the same with the 'public' entries taken out; a
\* property whose policy sets Get to 'public' is in the Get output.
C6_PublicIsDefault ==
    \A n \in Created(nodes) :
        /\ \A sp \in BOOLEAN :
              Get(Cur, n, Sparse(sp)) = Get(WithoutPublic(Cur), n, Sparse(sp))
        /\ \A names \in NotifyNames :
              NotifyData(Cur, n, names, 1) = NotifyData(WithoutPublic(Cur), n, names, 1)
        /\ \A k \in AccessProps, v \in WriteValues :
              Has(nodes[n].props, k) =>
                  /\ Props(Set(Cur, n, O1(k, v))) = Props(Set(WithoutPublic(Cur), n, O1(k, v)))
                  /\ Props(Assign(Cur, n, k, v)) = Props(Assign(WithoutPublic(Cur), n, k, v))
                  /\ Getter(nodes[n], k) = Getter(WithoutPublic(Cur).nodes[n], k)
        /\ \A k \in PropNames :
              (Has(nodes[n].props, k) /\ Channel(nodes, n, k, "Get") = Str("public"))
                  => Has(Get(Cur, n, Sparse(FALSE))[2], k)

\* The heap in which the policy of property k of node n has the getter entry
\* g, or none for g = Undef: the policy's other entries stay.
GetterEntry(h, n, k, g) ==
    LET a == AclEntry(h.nodes[n], k)
        rest == IF a[1] = "object" THEN SelectSeq(a[2], LAMBDA e : e[1] # "getter") ELSE << >>
        pol == IF g = Undef THEN rest ELSE Append(rest, <<"getter", g>>)
    IN  IF g = Undef /\ a = Undef THEN h
        ELSE [h EXCEPT !.nodes[n].acl = Put(@, k, Obj(pol))]

\* C7, as stated: two trees that differ only in the getter entry of the
\* policy of one property k store the same values through Set on k, keep k a
\* property, give the same Get output and the same notification deltas, and
\* take a later SetAccess on k alike.
C7_ChannelsIndependent ==
    \A n \in Created(nodes), k \in AccessProps :
        Has(nodes[n].props, k) =>
            LET open == GetterEntry(Cur, n, k, Undef)
                shut == GetterEntry(Cur, n, k, Str("none"))
            IN  /\ \A v \in WriteValues :
                      /\ Props(Set(open, n, O1(k, v))) = Props(Set(shut, n, O1(k, v)))
                      /\ Set(open, n, O1(k, v)).nodes[n].controls
                            = Set(shut, n, O1(k, v)).nodes[n].controls
                /\ \A sp \in BOOLEAN : Get(open, n, Sparse(sp)) = Get(shut, n, Sparse(sp))
                /\ \A names \in NotifyNames :
                      NotifyData(open, n, names, 1) = NotifyData(shut, n, names, 1)
                /\ \A a \in Policies :
                      AclEntry(SetAccess(open, n, k, a).nodes[n], k)
                          = AclEntry(SetAccess(shut, n, k, a).nodes[n], k)

\* C9, as stated: a control that is no longer registered with its parent has
\* no parent link, and a direct change of a property of such a control or of
\* a control below it emits no `data` event on the former parent or on the
\* root.
C9_DetachedIsSilent ==
    \A r \in Created(nodes) :
        ~IsChild(nodes, r) =>
            /\ nodes[r].parent = NoNode
            /\ (op.call = "assign" /\ AncestorOrSelf(nodes, r, op.n)) =>
                  /\ OnNode(log, "data", 1) = << >>
                  /\ nodes[r].parent # NoNode => OnNode(log, "data", nodes[r].parent) = << >>

\* The entries of fn in the list of event ev of node n, and the closures on
\* the 'remove' list of node c that unsubscribe fn from event ev of node n:
\* one for each on/once call made there with {caller: c}.
Subscribed(ns, n, ev, fn) ==
    Len(SelectSeq(ns[n].lst[ev], LAMBDA e : e.kind = "fn" /\ e.fn = fn))
OnBehalfOf(ns, c, n, ev, fn) ==
    Len(SelectSeq(ns[c].lst["remove"],
                  LAMBDA e : e.kind = "unsub" /\ e.tgt = n /\ e.tev = ev /\ e.fn = fn))
Calls(l, n, ev, fn) ==
    Len(SelectSeq(l, LAMBDA e : e.t = "call" /\ e.n = n /\ e.ev = ev /\ e.fn = fn))
Least(i, j) == IF i <= j THEN i ELSE j

\* C8: RemoveChild(name) of a child c first emits `remove` on c, c still
\* being in the parent's children mapping, and leaves c out of the mapping
\* and the alias and without listeners; every subscription made anywhere
\* with {caller: c}, by on or once, is taken off its list, and an emit
\* invokes the listeners on the list and no other.  RemoveChild of a name
\* that is no child changes nothing and emits nothing.
C8_RemoveChild ==
    [][/\ op'.call = "RemoveChild" =>
            IF Has(nodes[op'.n].controls, op'.k)
            THEN LET c == At(nodes[op'.n].controls, op'.k)
                 IN  /\ log' # << >>
                     /\ log'[1].t = "emit" /\ log'[1].n = c /\ log'[1].ev = "remove"
                     /\ log'[1].p = Node(c) /\ log'[1].att
                     /\ Len(EmitsOf(log', "remove")) = 1
                     /\ ~Has(nodes'[op'.n].controls, op'.k)
                     /\ ~Has(nodes'[op'.n].fields, op'.k)
                     /\ nodes'[c].lst = NoListeners
                     /\ \A n \in Ids, ev \in OnEvents, fn \in Listeners :
                           Subscribed(nodes', n, ev, fn) =
                               IF n = c THEN 0
                               ELSE Subscribed(nodes, n, ev, fn)
                                    - Least(Subscribed(nodes, n, ev, fn),
                                            OnBehalfOf(nodes, c, n, ev, fn))
            ELSE nodes' = nodes /\ cls' = cls /\ log' = << >> /\ ~err'
       /\ op'.call = "emit" =>
            \A n \in Ids, fn \in Listeners :
                Calls(log', n, op'.k, fn) =
                    IF n = op'.n THEN Subscribed(nodes, n, op'.k, fn) ELSE 0]_vars

\* B, subscribed to the root's log event with {caller: B}, has been removed.
C8_Witness ==
    /\ op.call = "RemoveChild" /\ op.k = "B"
    /\ Len(log) = 2
    /\ log[1].t = "emit" /\ log[1].ev = "remove" /\ log[1].att
    /\ log[2] = OffEntry(1, "log", "L1")
    /\ nodes[1].lst["log"] = << >>
    /\ nodes[log[1].n].name = "B" /\ ~IsChild(nodes, log[1].n)

\* C10, as stated: RemoveChild of a child c makes every control below c
\* emit `remove` too and leaves it without listeners, so that no
\* subscription made with {caller: d}, d below c, stays on a list.
C10_SubtreeDestroyed ==
    [][(op'.call = "RemoveChild" /\ Has(nodes[op'.n].controls, op'.k)) =>
          LET c == At(nodes[op'.n].controls, op'.k)
          IN  \A d \in Ids :
                  (d # c /\ AncestorOrSelf(nodes, c, d) /\ AttachedBelow(nodes, c, d)) =>
                      /\ OnNode(log', "remove", d) # << >>
                      /\ nodes'[d].lst = NoListeners
                      /\ \A n \in Ids, ev \in OnEvents, fn \in Listeners :
                            OnBehalfOf(nodes, d, n, ev, fn) > 0
                                => Subscribed(nodes', n, ev, fn) < Subscribed(nodes, n, ev, fn)]_vars

\* The data object d without its key k.
Without(d, k) == Obj(Del(d[2], k))

\* C11, as stated: Set on the top level container, which has no parent,
\* with `remove: true` raises no error and does nothing for that key; the
\* other keys of the call are processed as if the key were not there.
C11_RootRemoveIsNoOp ==
    [][(op'.call = "Set" /\ op'.n = 1 /\ nodes[1].parent = NoNode
           /\ LooseEq(PropOf(op'.v, "remove"), Bool(TRUE)))
          => /\ ~err'
             /\ nodes' = Set(Cur, 1, Without(op'.v, "remove")).nodes
             /\ log' = Set(Cur, 1, Without(op'.v, "remove")).log]_vars

\* C12, as stated: when Set finds under key k, which names neither a
\* property nor a child, a sub-object whose type indicator names no class
\* (no class file of that name in the controls directory, or a name that is
\* no single word), it creates no control under k, raises no error, emits no
\* creation event and processes the other keys of the call.
C12_UnresolvedTypeSkipped ==
    [][\A k \in ChildKeys :
          (/\ op'.call = "Set" /\ op'.n = 1
           /\ ~Has(nodes[1].controls, k)
           /\ PropOf(op'.v, k)[1] = "object"
           /\ PropOf(PropOf(op'.v, k), "controlType")[1] = "string"
           /\ \/ PropOf(PropOf(op'.v, k), "controlType")[2] \notin ClassFiles
              \/ ~SingleWord(PropOf(PropOf(op'.v, k), "controlType")[2]))
          => /\ ~err'
             /\ ~Has(nodes'[1].controls, k)
             /\ OnNode(log', k, 1) = << >>
             /\ \A e \in Range(EmitsOf(log', "newChildControl")) :
                   e.n = 1 => nodes'[e.p[2]].name # k
             /\ nodes' = Set(Cur, 1, Without(op'.v, k)).nodes
             /\ log' = Set(Cur, 1, Without(op'.v, k)).log]_vars

\* _createControl up to its call control.Set(data) (lines 726-777): the new
\* control is made, registered under name and aliased.
Placed(h, n, data, name) ==
    LET controlClass == _getDynamicClass(h, n, PropOf(data, "controlType")[2])
        id == Len(h.nodes) + 1
        control == WithAccessors([NewControl(controlClass) EXCEPT
                       !.name = name, !.parent = n, !.top = h.nodes[n].top])
        h1 == LoadClass(h, n, PropOf(data, "controlType")[2])
        h2 == [h1 EXCEPT !.nodes = Append(@, control)]
        h3 == [h2 EXCEPT !.nodes[n].controls = Put(@, name, id)]
    IN  Assign(h3, n, name, Node(id))

\* The value that Set(data), running on control m from the i-th key of data
\* on, assigns to property k of control n (lines 566-572), or undefined when
\* it assigns none.  The call is followed key by key as the code runs it:
\* a key the control takes for a property goes no further down, data goes
\* down to a child (line 579) or to a control the call makes (line 780), and
\* nothing is handed on once an error is on its way up.
RECURSIVE Addressed(_, _, _, _, _, _)
Addressed(h, m, data, i, n, k) ==
    IF h.err \/ ~Truthy(data) \/ data[1] # "object" THEN Undef
    ELSE IF i > Len(data[2]) THEN Undef
    ELSE LET key == data[2][i][1]
             v == data[2][i][2]
             c == h.nodes[m]
             open == key # "remove" /\ key \notin InternalKeys /\ key # "controlType"
             prop == open /\ ~LooseEq(Field(h, m, key), Undef) /\ Settable(Field(h, m, key))
             child == open /\ ~prop /\ Has(c.controls, key)
             make == /\ open /\ ~prop /\ ~child
                     /\ ~LooseEq(v, Null) /\ ~LooseEq(PropOf(v, "controlType"), Undef)
                     /\ _getDynamicClass(h, m, PropOf(v, "controlType")[2]) \notin Inherited \cup {""}
             below == IF child THEN Addressed(h, At(c.controls, key), v, 1, n, k)
                      ELSE IF make THEN Addressed(Placed(h, m, v, key), Len(h.nodes) + 1, v, 1, n, k)
                      ELSE Undef
         IN  IF prop /\ m = n /\ key = k
             THEN (IF ~Allowed(c, key, "Set") THEN Undef
                   ELSE IF ~LooseEq(v, Null) THEN v ELSE TemplateString(v))
             ELSE IF below # Undef THEN below
             ELSE Addressed(SetKey(h, m, data, key), m, data, i + 1, n, k)

\* C13: a write to property k of a value equal to the stored one (equal as
\* the language compares values: 1 and "1" are, two array objects of the
\* same elements are not), by direct assignment or through Set, leaves the
\* property registry as it is and emits neither the event named k nor
\* `data`, on the node or on an ancestor.
C13_EqualWriteIsNoOp ==
    [][\A n \in Created(nodes), k \in PropNames :
          (/\ Has(nodes[n].props, k)
           /\ AttachedBelow(nodes, 1, n)
           /\ \/ op'.call = "assign" /\ op'.n = n /\ op'.k = k
                    /\ LooseEq(Stored(nodes, n, k), op'.v)
              \/ op'.call = "Set"
                    /\ Addressed(Cur, 1, op'.v, 1, n, k) # Undef
                    /\ LooseEq(Stored(nodes, n, k), Addressed(Cur, 1, op'.v, 1, n, k)))
          => /\ Stored(nodes', n, k) = Stored(nodes, n, k)
             /\ op'.call = "assign" => nodes'[n].props = nodes[n].props
             /\ OnNode(log', k, n) = << >>
             /\ EmitsOf(log', "data") = << >>]_vars

\* C13 witness: a room's doors hold the number 1 after host code assigned
\* the string "1" to them, and the assignment emitted nothing.
C13_Witness ==
    /\ op.call = "assign" /\ op.k = "doors" /\ op.v = Str("1")
    /\ AttachedBelow(nodes, 1, op.n)
    /\ Stored(nodes, op.n, "doors") = Num(1)
    /\ log = << >>

\* The heap as the next call of the host code finds it.
Returned(h) == [h EXCEPT !.err = FALSE, !.log = << >>]

\* C14, as stated: for every tree and every data object d, the top level
\* container's Get gives the same after Set(d), Set(d) as after Set(d).
C14_SetIdempotent ==
    \A d \in SetData, sp \in BOOLEAN :
        Get(Set(Returned(Set(Cur, 1, d)), 1, d), 1, Sparse(sp))
            = Get(Set(Cur, 1, d), 1, Sparse(sp))

\* A fresh top level container with the same controls directory.
Fresh == [nodes |-> <<TopLevelContainer>>, cls |-> {}, log |-> << >>, err |-> FALSE]

\* The tree below control n in full: every property and every child, the
\* hidden ones too.
RECURSIVE Whole(_, _)
RECURSIVE WholeControls(_, _, _)
WholeControls(h, n, i) ==
    LET cs == h.nodes[n].controls
    IN  IF i > Len(cs) THEN << >>
        ELSE << <<cs[i][1], Whole(h, cs[i][2])>> >> \o WholeControls(h, n, i + 1)
Whole(h, n) == <<h.nodes[n].props, WholeControls(h, n, 1)>>

\* Get({sparse: false}) of the top level container, handed to Set on a fresh one.
RoundTrip(h) == Set(Fresh, 1, Get(h, 1, Sparse(FALSE)))

\* C15, as stated: for a tree built by Set calls on the top level container,
\* Set on a fresh top level container of its Get({sparse: false}) gives a
\* tree with the same Get({sparse: false}) and with the same controls, types
\* and property values, hidden controls included.
C15_RoundTrip ==
    /\ ~RoundTrip(Cur).err
    /\ Get(RoundTrip(Cur), 1, Sparse(FALSE)) = Get(Cur, 1, Sparse(FALSE))
    /\ Whole(RoundTrip(Cur), 1) = Whole(Cur, 1)

\* No control from n up to m (m excluded) is hidden.
RECURSIVE ShownBelow(_, _, _)
ShownBelow(ns, m, n) ==
    n = m \/ (~Truthy(Field([nodes |-> ns], n, "hideData")) /\ ShownBelow(ns, m, ns[n].parent))

\* C16, as stated: at every depth, Get with sparse true leaves out a
\* property that Get may read exactly when its value is the empty string
\* (0 and false are in the output), and Get with sparse false holds every
\* such property with its value.
C16_SparseOmitsEmptyOnly ==
    \A n \in Created(nodes), k \in PropNames :
        (/\ Has(nodes[n].props, k)
         /\ ~Has(nodes[n].controls, k)
         /\ AttachedBelow(nodes, 1, n) /\ ShownBelow(nodes, 1, n)
         /\ Allowed(nodes[n], k, "Get"))
        => LET path == NamesBetween(nodes, 1, n)
               thin == Dig(Get(Cur, 1, Sparse(TRUE)), path)
               full == Dig(Get(Cur, 1, Sparse(FALSE)), path)
           IN  /\ Lacks(thin, k) <=> Stored(nodes, n, k) = Str("")
               /\ ~Lacks(thin, k) => PropOf(thin, k) = Stored(nodes, n, k)
               /\ ~Lacks(full, k) /\ PropOf(full, k) = Stored(nodes, n, k)

\* The data model of the README: house1 is A, room1 is B.
Scenario ==
    O1("A", O2("controlType", Str("house"), "B", O2("controlType", Str("room"), "windows", Num(2))))
\* The entries of a Get result, but for the built-in hideData flag.
Entries(v) == {e \in Range(v[2]) : e[1] # "hideData"}
OnFresh(d) == nodes = Fresh.nodes /\ op'.call = "Set" /\ op'.n = 1 /\ op'.v = d

\* C17, as stated: on a fresh top level container, after Set of the README's
\* data model, Get() holds house1, without its empty streetNumber, and in it
\* room1, whose entries are exactly doors = 1 and windows = 2.
C17_AsStated ==
    [][OnFresh(Scenario) =>
          LET g == Get(Cur', 1, Sparse(TRUE))
          IN  /\ Lacks(Dig(g, <<"A">>), "streetNumber")
              /\ Dig(g, <<"A", "B">>) = Obj(<< <<"doors", Num(1)>>, <<"windows", Num(2)>> >>)]_vars

\* C17, amended: Get() holds house1 with controlType = 'house' and room1,
\* without streetNumber, and room1 with controlType = 'room', doors = 1 and
\* windows = 2; apart from the built-in hideData flag they hold nothing else.
C17_Scenario ==
    [][OnFresh(Scenario) =>
          LET g == Get(Cur', 1, Sparse(TRUE))
              room1 == Dig(g, <<"A", "B">>)
          IN  /\ ~err'
              /\ {e[1] : e \in Range(g[2])} = {"A"}
              /\ room1[1] = "object"
              /\ Entries(room1) = {<<"controlType", Str("room")>>,
                                   <<"doors", Num(1)>>, <<"windows", Num(2)>>}
              /\ Entries(Dig(g, <<"A">>)) = {<<"controlType", Str("house")>>, <<"B", room1>>}]_vars

C17_Witness ==
    /\ op.call = "Set" /\ op.v = Scenario /\ ~err
    /\ Len(EmitsOf(log, "newChildControl")) = 2
    /\ nodes[1].controls = << <<"A", 2>> >>
    /\ Stored(nodes, 2, "streetNumber") = Str("")
    /\ PropOf(Dig(Get(Cur, 1, Sparse(TRUE)), <<"A", "B">>), "windows") = Num(2)

\* The controls from n up the parent links, n first.
RECURSIVE UpChain(_, _)
UpChain(ns, n) == IF n = NoNode THEN << >> ELSE <<n>> \o UpChain(ns, ns[n].parent)

\* The controls an emit on n reaches, in order, by the claim.
Reached(ns, n, scope) ==
    CASE scope = "local" -> <<n>>
      [] scope = "bubble" -> UpChain(ns, n)
      [] scope = "top" -> <<ns[n].top>>
      [] scope = "local_top" -> <<n, ns[n].top>>

\* The trace of an emit on each control of seq in turn: the event, then one
\* call for each listener of the control.
RECURSIVE TraceOf(_, _, _)
TraceOf(ns, ev, seq) ==
    IF seq = << >> THEN << >>
    ELSE LET fns == SelectSeq(ns[Head(seq)].lst[ev], LAMBDA e : e.kind = "fn")
         IN  <<<<"emit", Head(seq), "">>>>
                 \o [i \in 1..Len(fns) |-> <<"call", Head(seq), fns[i].fn>>]
                 \o TraceOf(ns, ev, Tail(seq))

\* C18: an emit on a control n other than the top level container invokes,
\* with scope local, the listeners of n; with bubble, those of n and then
\* of each ancestor in turn up to the top level container; with top, those
\* of the top level container and not those of n; with local_top, those of
\* n and then those of the top level container; and no listener of any
\* other control.
C18_EmitScopes ==
    [][(op'.call = "emit" /\ op'.n # 1) =>
          /\ ~err'
          /\ [i \in 1..Len(log') |-> <<log'[i].t, log'[i].n, log'[i].fn>>]
                = TraceOf(nodes, op'.k, Reached(nodes, op'.n, op'.v[2]))]_vars

C18_Witness ==
    /\ op.call = "emit" /\ op.v = Str("bubble") /\ Chain3(nodes, op.n)
    /\ [i \in 1..Len(log) |-> <<log[i].t, log[i].n>>]
          = <<<<"emit", op.n>>, <<"call", op.n>>,
              <<"emit", nodes[op.n].parent>>, <<"call", nodes[op.n].parent>>,
              <<"emit", 1>>, <<"call", 1>>>>

\* C19, as stated: SetAccess(p, policy) makes policy the stored policy of p
\* exactly when p is an observable property of the control, whatever its
\* policy and value; for any other name nothing changes; no error is
\* raised.
C19_SetAccessIffProperty ==
    [][op'.call = "SetAccess" =>
          /\ ~err'
          /\ IF Has(nodes[op'.n].props, op'.k)
             THEN nodes' = [nodes EXCEPT ![op'.n].acl = Put(@, op'.k, op'.v)]
             ELSE nodes' = nodes]_vars

\* C20, as stated: when Set creates a child under key k, the child is in the parent's
\* children and the sub-object has been applied to it (its property events
\* and the events of its own children are out) when its Init hook runs; the
\* parent then emits the event named k and then `newChildControl`, both with
\* the child as payload, and nothing carries the child before its Init.
C20_CreationOrder ==
    [][op'.call = "Set" =>
          \A id \in (Len(nodes) + 1)..Len(nodes') :
              LET inits == {i \in 1..Len(log') : log'[i].t = "init" /\ log'[i].n = id}
                  init == CHOOSE i \in inits : TRUE
                  told == {i \in 1..Len(log') : log'[i].p = Node(id)}
                  own == {i \in 1..Len(log') : log'[i].t = "emit" /\ log'[i].n = id}
              IN  /\ Cardinality(inits) = 1
                  /\ told = {init + 1, init + 2}
                  /\ init + 2 <= Len(log')
                  /\ log'[init + 1] = [t |-> "emit", n |-> nodes'[id].parent,
                                       ev |-> nodes'[id].name, fn |-> "",
                                       p |-> Node(id), att |-> TRUE]
                  /\ log'[init + 2] = [log'[init + 1] EXCEPT !.ev = "newChildControl"]
                  /\ \A i \in own : i < init
                  /\ \A k \in PropNames :
                        (Has(nodes'[id].props, k) /\ Addressed(Cur, 1, op'.v, 1, id, k) # Undef)
                            => Stored(nodes', id, k) = Addressed(Cur, 1, op'.v, 1, id, k)]_vars

\* The places in trace l of the emits of event ev on node n.
Places(l, ev, n) == {i \in 1..Len(l) : l[i].t = "emit" /\ l[i].ev = ev /\ l[i].n = n}
\* The places in trace l of the `data` emits, on any node.
DataPlaces(l) == {i \in 1..Len(l) : l[i].t = "emit" /\ l[i].ev = "data"}

\* C21, as stated: a direct assignment that changes the value of property k
\* of a node emits the event named k on the node, carrying the new value,
\* and only then the `data` events of the notification router.  (The
\* setter of lines 754-768 calls the router at line 760 and emits the
\* property's event at line 764; the earlier copy, lines 325-332, has the
\* order stated here.)
C21_AsStated ==
    [][\A n \in Created(nodes), k \in PropNames :
          (Has(nodes[n].props, k) /\ DirectChange(n, k)) =>
              /\ \E i \in Places(log', k, n) : log'[i].p = op'.v
              /\ \A i \in Places(log', k, n), j \in DataPlaces(log') : i < j]_vars

\* The controls a call constructed.
Made(ns, ns2) == (Len(ns) + 1)..Len(ns2)

\* C22, as stated: a key of a Set object that names an observable property
\* of the control, declared at its construction, is taken for the property
\* whatever the property's value or policy: the call creates no child under
\* that key, and no control has a child under the name of one of its
\* properties to hand the key's value to.
C22_PropertyKeyIsNoChild ==
    [][op'.call = "Set" =>
          /\ \A id \in Made(nodes, nodes') :
                ~Has(nodes'[nodes'[id].parent].props, nodes'[id].name)
          /\ \A n \in Created(nodes'), k \in PropNames :
                Has(nodes'[n].props, k) => ~Has(nodes'[n].controls, k)]_vars

\* The names in the property registry of a control.
PropKeys(c) == {c.props[i][1] : i \in 1..Len(c.props)}
\* The fields the constructor of class c declares that get a getter and a setter.
Declared(c) == PropKeys(WithAccessors(NewControl(c)))

\* C23: the names in a control's property registry are those of the fields
\* its constructor declared, from its construction on: no Set call, direct
\* assignment, SetAccess call, creation or removal of a child adds a name to
\* the registry or takes one from it.
C23_RegistryNamesFixed ==
    [][/\ \A n \in Ids : PropKeys(nodes'[n]) = PropKeys(nodes[n])
       /\ \A n \in Made(nodes, nodes') : PropKeys(nodes'[n]) = Declared(nodes'[n].ctor)]_vars

\* The child made under the name of A's property streetNumber has been
\* removed, and with it the getter/setter pair of the name: the registry of
\* A still holds streetNumber, and A was then given a plain streetNumber.
C23_Witness ==
    /\ op.call = "assign" /\ op.k = "streetNumber" /\ op.v = Str("x")
    /\ nodes[op.n].ctor = "house"
    /\ "streetNumber" \notin nodes[op.n].acc
    /\ Has(nodes[op.n].fields, "streetNumber")
    /\ PropKeys(nodes[op.n]) = {"controlType", "hideData", "streetNumber"}
    /\ Stored(nodes, op.n, "streetNumber")[1] = "node"

\* The controls in the children mappings of the controls of S.
ChildrenOf(ns, S) == UNION {{ns[p].controls[j][2] : j \in 1..Len(ns[p].controls)} : p \in S}
\* The controls reached from the top level container through the children
\* mappings, in at most i steps from S.
RECURSIVE Below(_, _, _)
Below(ns, S, i) == IF i = 0 THEN S ELSE Below(ns, S \cup ChildrenOf(ns, S), i - 1)
InTree(ns) == Below(ns, {1}, Len(ns))
\* The places that hold control c: a control and a key of its children mapping.
Holders(ns, c) ==
    UNION {{<<p, ns[p].controls[j][1]>> : j \in {i \in 1..Len(ns[p].controls) : ns[p].controls[i][2] = c}}
              : p \in 1..Len(ns)}

\* C24: every control reached from the top level container, other than the
\* top level container, is in the children mapping of exactly one control
\* under exactly one key; the key is the control's name, its parent link is
\* that control and its root link is the top level container.
C24_OneParentOneKey ==
    \A c \in InTree(nodes) \ {1} :
        /\ Cardinality(Holders(nodes, c)) = 1
        /\ \A pk \in Holders(nodes, c) :
              /\ pk[2] = nodes[c].name
              /\ nodes[c].parent = pk[1]
              /\ nodes[c].top = 1

\* Three controls in a chain: A below the top level container and, below
\* A, a child made under the name of A's property streetNumber.
C24_Witness ==
    /\ Len(nodes) = 3
    /\ InTree(nodes) = {1, 2, 3}
    /\ Holders(nodes, 3) = {<<2, "streetNumber">>}
    /\ Holders(nodes, 2) = {<<1, "A">>}

\* C25, as stated: between the calls of host code the bypass flag of every
\* control made by Set is false, whatever calls came before; and so a
\* direct assignment that changes the stored value of a property hands the
\* change to the notification router, which emits `data` on the control.
C25_BypassFlagClear ==
    [][/\ \A n \in Created(nodes') : ~nodes'[n].bypass
       /\ \A n \in Created(nodes), k \in PropNames :
             (Has(nodes[n].props, k) /\ k \in nodes[n].acc /\ DirectChange(n, k))
                 => OnNode(log', "data", n) # << >>]_vars

\* C26, as stated: whenever a control emits the event named after a child's
\* key, or `newChildControl`, with control c as payload, c is at that moment
\* in the children mapping of that control under its name, also when the
\* data that made c holds remove: true.
C26_AnnouncedIsChild ==
    [][\A i \in 1..Len(log') :
          (/\ log'[i].t = "emit"
           /\ log'[i].p[1] = "node"
           /\ log'[i].ev \in {"newChildControl", nodes'[log'[i].p[2]].name})
          => /\ log'[i].att
             /\ nodes'[log'[i].p[2]].parent = log'[i].n]_vars

\* C27, as stated: an emit with scope top or local_top invokes each listener
\* of the event on the top level container exactly once, also when the
\* emitting control is the top level container.
C27_RootListenersOnce ==
    [][(op'.call = "emit" /\ op'.v \in {Str("top"), Str("local_top")}) =>
          \A fn \in Listeners :
              Calls(log', 1, op'.k, fn) = Subscribed(nodes, 1, op'.k, fn)]_vars

\* The controls from the top of n's parent chain down to n.
RECURSIVE DownChain(_, _)
DownChain(ns, n) == IF n = NoNode THEN << >> ELSE Append(DownChain(ns, ns[n].parent), n)

\* The `data` events of a trace and the calls of their listeners, in order.
DataTrace(l) ==
    LET d == SelectSeq(l, LAMBDA e : e.ev = "data")
    IN  [i \in 1..Len(d) |-> <<d[i].t, d[i].n, d[i].fn>>]

\* C28: for a direct change of a property of a control with no hidden
\* control on its path, the `data` events the change brings are delivered
\* from the top down: the `data` listeners of the top level container run
\* first, then those of each control down the path, and those of the
\* control itself last.
C28_AncestorFirst ==
    [][\A n \in Created(nodes), k \in PropNames :
          (/\ Has(nodes[n].props, k) /\ DirectChange(n, k)
           /\ AttachedBelow(nodes, 1, n)
           /\ ShownBelow(nodes', 1, n)
           /\ EmitsOf(log', "data") # << >>)
          => DataTrace(log') = TraceOf(nodes, "data", DownChain(nodes, n))]_vars

\* doors of B was changed with a `data` listener on the top level container,
\* on A and on B.
C28_Witness ==
    /\ op.call = "assign" /\ op.k = "doors" /\ Chain3(nodes, op.n)
    /\ [i \in 1..Len(log) |-> <<log[i].t, log[i].ev, log[i].n>>]
          = <<<<"emit", "data", 1>>, <<"call", "data", 1>>,
              <<"emit", "data", nodes[op.n].parent>>, <<"call", "data", nodes[op.n].parent>>,
              <<"emit", "data", op.n>>, <<"call", "data", op.n>>,
              <<"emit", "doors", op.n>>>>

\* Where in trace l the Init hook of control n runs, and where control d is
\* announced on its parent: the event named after its key and `newChildControl`.
InitAt(l, n) == {i \in 1..Len(l) : l[i].t = "init" /\ l[i].n = n}
ToldAt(l, ns, d, ev) ==
    {i \in 1..Len(l) : l[i].t = "emit" /\ l[i].n = ns[d].parent /\ l[i].ev = ev /\ l[i].p = Node(d)}
Announced(l, ns, d) == ToldAt(l, ns, d, ns[d].name) \cup ToldAt(l, ns, d, "newChildControl")

\* C29: when one Set call makes a control a and controls below it, each
\* control d below a has been constructed, has had its Init hook run and
\* has been announced on its own parent, by the event named after its key
\* and by `newChildControl`, before the Init hook of a runs and before a is
\* announced on its parent.
C29_PostOrder ==
    [][op'.call = "Set" =>
          \A a \in Made(nodes, nodes'), d \in Made(nodes, nodes') :
              (d # a /\ AncestorOrSelf(nodes', a, d) /\ InitAt(log', a) # {}) =>
                  /\ Cardinality(InitAt(log', d)) = 1
                  /\ ToldAt(log', nodes', d, nodes'[d].name) # {}
                  /\ ToldAt(log', nodes', d, "newChildControl") # {}
                  /\ \A i \in InitAt(log', d) \cup Announced(log', nodes', d),
                        j \in InitAt(log', a) \cup Announced(log', nodes', a) : i < j]_vars

\* The README's data model was set on a fresh top level container: room1
\* (B) is initialised and announced on house1 (A) before house1 is.
C29_Witness ==
    /\ op.call = "Set" /\ op.v = Scenario /\ Len(nodes) = 3
    /\ [i \in 1..Len(log) |-> <<log[i].t, log[i].n, log[i].ev>>]
          = <<<<"emit", 3, "windows">>, <<"init", 3, "">>,
              <<"emit", 2, "B">>, <<"emit", 2, "newChildControl">>,
              <<"init", 2, "">>,
              <<"emit", 1, "A">>, <<"emit", 1, "newChildControl">>>>

\* The delta d wrapped under the names of path, the first name outermost.
RECURSIVE Wrap(_, _)
Wrap(d, path) == IF path = << >> THEN d ELSE O1(Head(path), Wrap(d, Tail(path)))

\* The `data` events of a trace: the control and the payload of each.
DataEvents(l) == [i \in 1..Len(EmitsOf(l, "data")) |-> <<EmitsOf(l, "data")[i].n, EmitsOf(l, "data")[i].p>>]

\* C30: a direct assignment that changes a property whose Get channel is
\* denied emits `data` on the control once, with an empty delta, and once on
\* each control up its parent chain that no hidden control on the way
\* cuts off, with the empty delta wrapped under the names of the path; it
\* emits `data` nowhere else, and no delta holds the property.
C30_DeniedGetEmptyDelta ==
    [][\A n \in Created(nodes), k \in PropNames :
          (/\ Has(nodes[n].props, k) /\ DirectChange(n, k)
           /\ ~Allowed(nodes[n], k, "Get"))
          => LET up == UpChain(nodes, n)
                 told == SelectSeq(DownChain(nodes, n), LAMBDA m : ShownBelow(nodes', m, n))
             IN  /\ DataEvents(log') =
                       [i \in 1..Len(told) |->
                           <<told[i], Wrap(Obj(<< >>), NamesBetween(nodes, told[i], n))>>]
                 /\ <<n, Obj(<< >>)>> \in Range(DataEvents(log'))
                 /\ \A e \in Range(EmitsOf(log', "data")) :
                       Lacks(Dig(e.p, NamesBetween(nodes, e.n, n)), k)]_vars

\* doors of B, whose Get channel is denied, was assigned 2 with A hidden:
\* `data` with {} on B and with {B: {}} on A, none on the top level container.
C30_Witness ==
    /\ op.call = "assign" /\ op.k = "doors" /\ op.v = Num(2)
    /\ Chain3(nodes, op.n)
    /\ Channel(nodes, op.n, "doors", "Get") = Str("none")
    /\ Stored(nodes, op.n, "doors") = Num(2)
    /\ Hidden(nodes, nodes[op.n].parent)
    /\ DataEvents(log) = <<<<nodes[op.n].parent, O1("B", Obj(<< >>))>>, <<op.n, Obj(<< >>)>>>>

============================================================================
